---- MODULE Spec2Model ----
(***************************************************************************)
(* Model of fb_alloc<T, nof_elements, alignment> (src/fb_alloc.h): a       *)
(* fixed-size-block pool allocator.  Handles are fb_alloc objects; the     *)
(* reference counter and the allocation counter are heap ints that the     *)
(* handles of a group point to; pool_head_ and chunk_head_ are plain       *)
(* members of each handle; the chunk cache is the static state of one      *)
(* instantiation (one per element type).  Memory is a map from word        *)
(* addresses to pointer values; addresses are byte addresses.  The class   *)
(* declares a constructor template only, so an object built from another   *)
(* of its own type is built by the copy constructor the compiler           *)
(* generates.                                                              *)
(***************************************************************************)
EXTENDS Integers, Sequences, FiniteSets, Bags, TLC

\* ---------------------------------------------------------------- bounds
MaxHandles == 2
MaxChunks == 2
MaxB == 2
MaxCalls == 3
SizeBits == 6
MaxGrowB == 17

\* ------------------------------------------------------ program constants
NULL == 0
PtrSize == 8
Alignment == 8
GarbageWord == 1
GarbageInt == 1

Handles == 1..MaxHandles
MaxInts == 2 * MaxHandles
IntCells == 1..MaxInts
ChunkIds == 1..MaxChunks

\* element types the template is instantiated with, and sizeof(T)
Types == {"int", "double", "triple"}
SizeOf(T) == IF T = "int" THEN 4 ELSE IF T = "double" THEN 8 ELSE 12

\* size_t arithmetic wraps; size_t has SizeBits bits here
SizeMod == 2 ^ SizeBits

\* the element-size loop of both constructors:
\* for ( ; elsize_ < elsize_ + alignment_; ++elsize_ ) if ( elsize_ % alignment_ == 0 ) break;
RECURSIVE AlignLoop(_, _)
AlignLoop(e, a) ==
  IF ~(e < (e + a) % SizeMod) THEN e
  ELSE IF e % a = 0 THEN e
  ELSE AlignLoop((e + 1) % SizeMod, a)

MaxElsize == AlignLoop(12, Alignment)

\* heap layout: chunk c is the c-th array obtained from operator new[]
Stride == (MaxB + 10) * MaxElsize
Base(c) == c * Stride

VARIABLES
  nof_elements,           \* the template argument of this run
  fba,                    \* the fb_alloc objects
  ints,                   \* the heap ints behind refcount_ / nof_allocs_
  global_chunk_head_,     \* static, per instantiation
  nof_allocated_chunks_,  \* static, per instantiation
  nof_free_chunks_,       \* static, per instantiation
  nheap,                  \* chunks obtained from operator new[] so far
  csize,                  \* byte size of each such chunk
  mem,                    \* the words of those chunks
  group,                  \* per object: the object its group began with
  out,                    \* per group: blocks handed out and not yet returned
  nborn,                  \* fb_alloc objects constructed so far
  ncalls,                 \* calls of allocate() so far
  last,                   \* the call that was made last, and what it returned
  calc                    \* a computation made on its own: its inputs, its result

vars == <<nof_elements, fba, ints, global_chunk_head_, nof_allocated_chunks_,
          nof_free_chunks_, nheap, csize, mem, group, out, nborn, ncalls, last, calc>>

\* the program state as one record, for the operators that transform it
St ==
  [fba |-> fba, ints |-> ints, gch |-> global_chunk_head_,
   nac |-> nof_allocated_chunks_, nfc |-> nof_free_chunks_,
   nheap |-> nheap, csize |-> csize, mem |-> mem, out |-> out,
   af |-> FALSE, thrown |-> FALSE, ret |-> NULL, heap_full |-> FALSE]

\* the same state, with a heap that has no memory left for a chunk
HeapFull == [St EXCEPT !.heap_full = TRUE]

Commit(s) ==
  /\ fba' = s.fba
  /\ ints' = s.ints
  /\ global_chunk_head_' = s.gch
  /\ nof_allocated_chunks_' = s.nac
  /\ nof_free_chunks_' = s.nfc
  /\ nheap' = s.nheap
  /\ csize' = s.csize
  /\ mem' = s.mem
  /\ out' = s.out
  /\ UNCHANGED <<nof_elements, calc>>

\* assert(c): a false one aborts a debug build; an NDEBUG build goes on
assert(s, c) == IF c THEN s ELSE [s EXCEPT !.af = TRUE]

NoHandle ==
  [live |-> FALSE, type |-> "none", nof_elmts_ |-> 0, elsize_ |-> 0, alignment_ |-> 0,
   pool_head_ |-> NULL, chunk_head_ |-> NULL, refcount_ |-> NULL, nof_allocs_ |-> NULL]

FreeInt == [live |-> FALSE, val |-> 0]

\* ---------------------------------------------------------------- memory
\* A word outside every chunk holds whatever its owner put there: null or a
\* pointer to more foreign memory.  A load through such an address yields
\* either, a store to it is lost.
WildVals == {NULL, GarbageWord}

Load(s, a) == IF a \in DOMAIN s.mem THEN {s.mem[a]} ELSE WildVals

Store(m, a, v) == IF a \in DOMAIN m THEN [m EXCEPT ![a] = v] ELSE m

WordsOf(c, size) == {Base(c) + PtrSize * i : i \in 0..((size \div PtrSize) - 1)}

\* ------------------------------------------------------------- operator new
\* new int: the cells that the constructor of object h obtains; a cell is not
\* handed out twice
NewInt(h, k) == 2 * (h - 1) + k
SetInt(s, i, v) == [s EXCEPT !.ints[i] = [live |-> TRUE, val |-> v]]

\* what a deleted int may hold when it is read again
WildInts == {0, GarbageInt}

\* delete refcount_; delete nof_allocs_; by object h.  When another object
\* still points to the two ints they dangle: what is read through them later
\* is what they held or what the heap put there.
DeleteInts(s, h, rc, na) ==
  IF \E k \in Handles \ {h} : s.fba[k].live /\ s.fba[k].refcount_ = rc
  THEN {[s EXCEPT !.ints[rc] = [live |-> FALSE, val |-> v[1]],
                  !.ints[na] = [live |-> FALSE, val |-> v[2]]] :
        v \in {<<s.ints[rc].val, s.ints[na].val>>} \cup {<<w, w>> : w \in WildInts}}
  ELSE {[s EXCEPT !.ints[rc] = FreeInt, !.ints[na] = FreeInt]}

\* ------------------------------------------------------------ chunk manager
\* allocate_chunk(): the cached chunk on top of this instantiation's list, or
\* a new zero-filled array.  Yields the possible <<state, chunk>> results.
allocate_chunk(s, h) ==
  LET T == s.fba[h].type
      size == s.fba[h].elsize_ * s.fba[h].nof_elmts_ + PtrSize
  IN IF s.gch[T] = NULL
     THEN IF s.heap_full
          THEN {<<[s EXCEPT !.nac[T] = @ + 1, !.thrown = TRUE], NULL>>}
          ELSE IF s.nheap < MaxChunks
          THEN LET c == s.nheap + 1
                   s1 == [s EXCEPT !.nac[T] = @ + 1,
                                   !.nheap = c,
                                   !.csize[c] = size,
                                   !.mem = [a \in WordsOf(c, size) |-> NULL] @@ @]
               IN {<<s1, Base(c)>>}
          ELSE {}
     ELSE LET s1 == assert([s EXCEPT !.nfc[T] = @ - 1], s.nfc[T] - 1 >= 0)
              res == s.gch[T]
          IN {<<[s1 EXCEPT !.gch[T] = nx], res>> : nx \in Load(s, res)}

\* deallocate_chunk(p): push p on this instantiation's list
deallocate_chunk(s, h, p) ==
  LET T == s.fba[h].type
      s1 == [s EXCEPT !.mem = Store(@, p, s.gch[T]),
                      !.gch[T] = p,
                      !.nfc[T] = @ + 1]
  IN assert(s1, s1.nfc[T] <= s1.nac[T])

\* ------------------------------------------------------------------- grow
\* k times:  p->next_ = p + elsize_;  p += elsize_;
RECURSIVE link(_, _, _, _)
link(m, p, E, k) ==
  IF k = 0 THEN <<m, p>> ELSE link(Store(m, p, p + E), p + E, E, k - 1)

\* the do-while of grow(), entered at the case label that leaves `entry`
\* link statements in the first pass
RECURSIVE duff(_, _, _, _, _)
duff(m, p, E, entry, nn) ==
  LET r == link(m, p, E, entry)
  IN IF nn - 1 > 0 THEN duff(r[1], r[2], E, 8, nn - 1) ELSE r

\* grow(), lines 261-285: thread the blocks of the chunk at `start`
set_links(m, start, E, B) ==
  LET nn == ((B - 1) + 7) \div 8
      c == (B - 1) % 8
      r == duff(m, start, E, IF c = 0 THEN 8 ELSE c, nn)
  IN Store(r[1], r[2], NULL)

grow(s, h) ==
  LET f == s.fba[h]
  IN IF f.refcount_ = NULL \/ f.nof_allocs_ = NULL
     THEN {[s EXCEPT !.thrown = TRUE]}
     ELSE {IF r[1].thrown THEN r[1]
           ELSE [r[1] EXCEPT
              !.mem = set_links(Store(@, r[2] + f.elsize_ * f.nof_elmts_, f.chunk_head_),
                                r[2], f.elsize_, f.nof_elmts_),
              !.fba[h].chunk_head_ = r[2],
              !.fba[h].pool_head_ = r[2]] : r \in allocate_chunk(s, h)}

\* ------------------------------------------------------------------ clean
LoopFuel == MaxChunks + 2

RECURSIVE clean_loop(_, _, _, _)
clean_loop(s, h, ptr, fuel) ==
  IF ptr = NULL
  THEN {[s EXCEPT !.fba[h].pool_head_ = NULL, !.fba[h].chunk_head_ = NULL]}
  ELSE IF fuel = 0 THEN {}
  ELSE UNION {clean_loop(deallocate_chunk([s EXCEPT !.fba[h].chunk_head_ = nx], h, ptr),
                         h, nx, fuel - 1) :
              nx \in Load(s, ptr + s.fba[h].elsize_ * s.fba[h].nof_elmts_)}

clean(s, h) == clean_loop(s, h, s.fba[h].chunk_head_, LoopFuel)

\* ------------------------------------------------------------------ check
\* check() with the span of a chunk taken one block too long
RECURSIVE check_loop_wide(_, _, _, _, _)
check_loop_wide(s, h, ptr, pob, fuel) ==
  LET f == s.fba[h]
  IN IF ptr = NULL THEN {FALSE}
     ELSE IF pob >= ptr /\ pob <= ptr + f.nof_elmts_ * f.elsize_ THEN {TRUE}
     ELSE IF fuel = 0 THEN {}
     ELSE UNION {check_loop_wide(s, h, nx, pob, fuel - 1) :
                 nx \in Load(s, ptr + f.elsize_ * f.nof_elmts_)}

RECURSIVE check_loop(_, _, _, _, _)
check_loop(s, h, ptr, pob, fuel) ==
  LET f == s.fba[h]
  IN IF ptr = NULL THEN {FALSE}
     ELSE IF pob >= ptr /\ pob <= ptr + (f.nof_elmts_ - 1) * f.elsize_ THEN {TRUE}
     ELSE IF fuel = 0 THEN {}
     ELSE UNION {check_loop(s, h, nx, pob, fuel - 1) :
                 nx \in Load(s, ptr + f.elsize_ * f.nof_elmts_)}

check(s, h, p) == check_loop(s, h, s.fba[h].chunk_head_, p, LoopFuel)

\* --------------------------------------------------------------- observers
refcount(s, h) == IF s.fba[h].refcount_ # NULL THEN s.ints[s.fba[h].refcount_].val ELSE 0

nof_allocs(s, h) == IF s.fba[h].nof_allocs_ # NULL THEN s.ints[s.fba[h].nof_allocs_].val ELSE 0

\* ------------------------------------------------------------ constructors
\* fb_alloc(): both counters come from the throwing operator new
ctor(s, h, T) ==
  LET rc == NewInt(h, 1)
      s1 == SetInt(s, rc, 1)
      na == NewInt(h, 2)
      s2 == SetInt(s1, na, 0)
  IN [s2 EXCEPT !.fba[h] =
        [live |-> TRUE, type |-> T, nof_elmts_ |-> nof_elements,
         elsize_ |-> AlignLoop(SizeOf(T), Alignment), alignment_ |-> Alignment,
         pool_head_ |-> NULL, chunk_head_ |-> NULL,
         refcount_ |-> rc, nof_allocs_ |-> na]]

\* the copy constructor template without its comparison of block sizes
copy_ctor_shared(s, h, src, T) ==
  LET f == s.fba[src]
      s1 == [s EXCEPT !.fba[h] = [f EXCEPT !.type = T,
                                           !.elsize_ = AlignLoop(SizeOf(T), Alignment)],
                      !.ints[f.refcount_].val = @ + 1]
  IN assert(s1, s1.ints[f.refcount_].val >= 0)

\* fb_alloc(const fb_alloc<U,...>& fba): h is built as a view of src
copy_ctor(s, h, src, T) ==
  LET E == AlignLoop(SizeOf(T), Alignment)
      f == s.fba[src]
      base == [live |-> TRUE, type |-> T, nof_elmts_ |-> nof_elements,
               elsize_ |-> E, alignment_ |-> Alignment,
               pool_head_ |-> NULL, chunk_head_ |-> NULL,
               refcount_ |-> NULL, nof_allocs_ |-> NULL]
  IN IF E = f.elsize_
     THEN LET s1 == [s EXCEPT !.fba[h] = [base EXCEPT !.pool_head_ = f.pool_head_,
                                                       !.chunk_head_ = f.chunk_head_,
                                                       !.refcount_ = f.refcount_,
                                                       !.nof_allocs_ = f.nof_allocs_],
                              !.ints[f.refcount_].val = @ + 1]
          IN assert(s1, s1.ints[f.refcount_].val >= 0)
     ELSE LET rc == NewInt(h, 1)
              s1 == SetInt(s, rc, 1)
              na == NewInt(h, 2)
              s2 == SetInt(s1, na, 0)
          IN [s2 EXCEPT !.fba[h] = [base EXCEPT !.refcount_ = rc, !.nof_allocs_ = na]]

\* fb_alloc(const fb_alloc&), generated by the compiler since the class
\* declares none: h is built from src of its own type, member by member
implicit_copy(s, h, src) == [s EXCEPT !.fba[h] = s.fba[src]]

\* ~fb_alloc(); the object is gone afterwards
dtor(s, h) ==
  LET f == s.fba[h]
      gone(x) == [x EXCEPT !.fba[h] = NoHandle]
  IN IF f.refcount_ # NULL
     THEN LET s1 == [s EXCEPT !.ints[f.refcount_].val = @ - 1]
              s2 == assert(s1, s1.ints[f.refcount_].val >= 0)
          IN IF s2.ints[f.refcount_].val = 0
             THEN {gone(d) : d \in UNION {DeleteInts(c, h, f.refcount_, f.nof_allocs_) :
                                            c \in clean(s2, h)}}
             ELSE {gone(s2)}
     ELSE {gone(s)}

release(s, h) ==
  LET f == s.fba[h]
  IN IF f.refcount_ # NULL
     THEN LET s1 == [s EXCEPT !.ints[f.refcount_].val = @ - 1]
              s2 == assert(s1, s1.ints[f.refcount_].val >= 0)
          IN IF s2.ints[f.refcount_].val = 0
             THEN {[c EXCEPT !.ints[f.refcount_].val = 1, !.ints[f.nof_allocs_].val = 0] :
                   c \in clean(s2, h)}
             ELSE {s2}
     ELSE {s}

\* ------------------------------------------------------- allocate/deallocate
\* ::operator new(n * sizeof(T)) hands out memory of the process heap, which
\* is no part of any chunk
BulkAddr == Base(MaxChunks + 1)

allocate(s, h, n) ==
  IF n = 1
  THEN LET grown == IF s.fba[h].pool_head_ = NULL THEN grow(s, h) ELSE {s}
           pop(g) ==
             IF g.thrown THEN {g}
             ELSE LET res == g.fba[h].pool_head_
                      g1(nx) == [g EXCEPT !.fba[h].pool_head_ = nx,
                                          !.ints[g.fba[h].nof_allocs_].val = @ + 1,
                                          !.ret = res]
                  IN {assert(g1(nx), g1(nx).ints[g.fba[h].nof_allocs_].val > 0) :
                      nx \in Load(g, res)}
       IN UNION {pop(g) : g \in grown}
  ELSE {[s EXCEPT !.ret = BulkAddr]}

\* deallocate() that links the block but leaves pool_head_ as it was
deallocate_unlinked(s, h, p, n) ==
  IF n = 1
  THEN {LET s1 == assert(s, b)
            s2 == [s1 EXCEPT !.mem = Store(@, p, s.fba[h].pool_head_),
                             !.ints[s.fba[h].nof_allocs_].val = @ - 1]
        IN assert(s2, s2.ints[s.fba[h].nof_allocs_].val >= 0) : b \in check(s, h, p)}
  ELSE {s}

\* deallocate() whose bulk path counts the call as the pooled path does
deallocate_counted(s, h, p, n) ==
  IF n = 1
  THEN {LET s1 == assert(s, b)
            s2 == [s1 EXCEPT !.mem = Store(@, p, s.fba[h].pool_head_),
                             !.fba[h].pool_head_ = p,
                             !.ints[s.fba[h].nof_allocs_].val = @ - 1]
        IN assert(s2, s2.ints[s.fba[h].nof_allocs_].val >= 0) : b \in check(s, h, p)}
  ELSE {[s EXCEPT !.ints[s.fba[h].nof_allocs_].val = @ - 1]}

deallocate(s, h, p, n) ==
  IF n = 1
  THEN {LET s1 == assert(s, b)
            s2 == [s1 EXCEPT !.mem = Store(@, p, s.fba[h].pool_head_),
                             !.fba[h].pool_head_ = p,
                             !.ints[s.fba[h].nof_allocs_].val = @ - 1]
        IN assert(s2, s2.ints[s.fba[h].nof_allocs_].val >= 0) : b \in check(s, h, p)}
  ELSE {s}

\* construct(p, val): the caller's value lands in the block; v is its first word
construct(s, h, p, v) == [s EXCEPT !.mem = Store(@, p, v)]

\* ---------------------------------------------------------------- actions
\* The group of an object: an object built by fb_alloc() begins one, and so
\* does a view whose block size differs from its source's; any other copy
\* joins the group of its source.
Group(h) == group[h]

Members(g) == {k \in Handles : fba[k].live /\ group[k] = g}

\* what the caller holds of h's group and may pass to deallocate(p, 1)
Held(h) == IF fba[h].live THEN BagToSet(out[Group(h)]) ELSE {}

\* The record of the call made last: which, on which object (for the calls
\* that touch the pool), whether an assert of it was false.  A deallocate(p, 1) also leaves p and the value of
\* nof_allocs() before it; an allocate(1) leaves the address it returned, and
\* is named "reallocate" when it follows a deallocate(p, 1) on the same object.
Called(op, h, s) == [op |-> op, h |-> h, af |-> s.af, p |-> NULL, ret |-> NULL, na |-> 0]

NoCalc == [op |-> "none", size |-> 0, alignment |-> 0, elsize |-> 0, B |-> 0, m |-> <<>>]

\* no object has been constructed, the statics are as initialised
NoObjects ==
  /\ fba = [h \in Handles |-> NoHandle]
  /\ ints = [i \in IntCells |-> FreeInt]
  /\ global_chunk_head_ = [T \in Types |-> NULL]
  /\ nof_allocated_chunks_ = [T \in Types |-> 0]
  /\ nof_free_chunks_ = [T \in Types |-> 0]
  /\ nheap = 0
  /\ csize = [c \in ChunkIds |-> 0]
  /\ mem = <<>>
  /\ group = [h \in Handles |-> 0]
  /\ out = [h \in Handles |-> EmptyBag]
  /\ nborn = 0
  /\ ncalls = 0
  /\ last = Called("none", 0, St)

Init ==
  /\ nof_elements \in 1..MaxB
  /\ NoObjects
  /\ calc = NoCalc

\* Objects are numbered in the order of their construction.  The first one is
\* an fb_alloc<int>; the others are of any type.
Ctor(h, T) ==
  /\ h = nborn + 1
  /\ h = 1 => T = "int"
  /\ nborn' = h
  /\ group' = [group EXCEPT ![h] = h]
  /\ LET s == ctor(St, h, T)
     IN Commit(s) /\ last' = Called("ctor", h, s)
  /\ UNCHANGED ncalls

\* a view of src, of another element type
CopyCtor(h, src, T) ==
  /\ h = nborn + 1
  /\ nborn' = h
  /\ fba[src].live
  /\ T # fba[src].type
  /\ LET s == copy_ctor(St, h, src, T)
     IN /\ Commit(s)
        /\ last' = Called("copy", h, s)
        /\ group' = [group EXCEPT ![h] = IF s.fba[h].elsize_ = fba[src].elsize_
                                         THEN group[src] ELSE h]
  /\ UNCHANGED ncalls

\* a copy of src, of the same element type
ImplicitCopy(h, src) ==
  /\ h = nborn + 1
  /\ nborn' = h
  /\ fba[src].live
  /\ LET s == implicit_copy(St, h, src)
     IN Commit(s) /\ last' = Called("copy", h, s)
  /\ group' = [group EXCEPT ![h] = group[src]]
  /\ UNCHANGED ncalls

\* the caller holds no block of a group that has no object left, or that
\* its only object has released
Drained(s, h) ==
  IF Members(Group(h)) = {h} THEN [s EXCEPT !.out[Group(h)] = EmptyBag] ELSE s

Dtor(h) ==
  /\ fba[h].live
  /\ \E s \in dtor(Drained(St, h), h) :
       Commit(s) /\ last' = Called("dtor", h, s)
  /\ group' = [group EXCEPT ![h] = 0]
  /\ UNCHANGED <<nborn, ncalls>>

\* release(), called as its contract asks: by the only object of a group,
\* which reads refcount() as 1
Release(h) ==
  /\ fba[h].live
  /\ Members(Group(h)) = {h}
  /\ refcount(St, h) = 1
  /\ \E s \in release(Drained(St, h), h) :
       Commit(s) /\ last' = Called("release", h, s)
  /\ UNCHANGED <<group, nborn, ncalls>>

Allocate(h) ==
  /\ fba[h].live
  /\ ncalls < MaxCalls
  /\ ncalls' = ncalls + 1
  /\ \E s \in allocate(St, h, 1) :
       /\ Commit([s EXCEPT !.out[Group(h)] = @ (+) SetToBag({s.ret})])
       /\ last' = IF last.op = "deallocate" /\ last.h = h
                  THEN [Called("reallocate", h, s) EXCEPT !.p = last.p, !.na = last.na,
                                                          !.ret = s.ret]
                  ELSE [Called("allocate", h, s) EXCEPT !.ret = s.ret]
  /\ UNCHANGED <<group, nborn>>

Deallocate(h, p) ==
  /\ fba[h].live
  /\ p \in Held(h)
  /\ \E s \in deallocate(St, h, p, 1) :
       /\ Commit([s EXCEPT !.out[Group(h)] = @ (-) SetToBag({p})])
       /\ last' = [Called("deallocate", h, s) EXCEPT !.p = p, !.na = nof_allocs(St, h)]
  /\ UNCHANGED <<group, nborn, ncalls>>

\* allocate(n), n # 1
AllocateN(h, n) ==
  /\ fba[h].live
  /\ \E s \in allocate(St, h, n) :
       Commit(s) /\ last' = Called("allocate_n", 0, s)
  /\ UNCHANGED <<group, nborn, ncalls>>

\* deallocate(p, n), n # 1, of a pointer that allocate(n) returned
DeallocateN(h, n) ==
  /\ fba[h].live
  /\ \E s \in deallocate(St, h, BulkAddr, n) :
       Commit(s) /\ last' = Called("deallocate_n", 0, s)
  /\ UNCHANGED <<group, nborn, ncalls>>

Construct(h, p) ==
  /\ fba[h].live
  /\ p \in Held(h)
  /\ LET s == construct(St, h, p, GarbageWord)
     IN Commit(s) /\ last' = Called("construct", 0, s)
  /\ UNCHANGED <<group, nborn, ncalls>>

Next ==
  \/ \E h \in Handles, T \in Types : Ctor(h, T)
  \/ \E h \in Handles, src \in Handles, T \in Types : CopyCtor(h, src, T)
  \/ \E h \in Handles, src \in Handles : ImplicitCopy(h, src)
  \/ \E h \in Handles : Dtor(h)
  \/ \E h \in Handles : Release(h)
  \/ \E h \in Handles : Allocate(h)
  \/ \E h \in Handles : \E p \in Held(h) : Deallocate(h, p)
  \/ \E h \in Handles, n \in {0, 2} : AllocateN(h, n)
  \/ \E h \in Handles, n \in {0, 2} : DeallocateN(h, n)
  \/ \E h \in Handles : \E p \in Held(h) : Construct(h, p)

Spec == Init /\ [][Next]_vars

\* the runs in which every copy is a view of another element type
NextViews ==
  \/ \E h \in Handles, T \in Types : Ctor(h, T)
  \/ \E h \in Handles, src \in Handles, T \in Types : CopyCtor(h, src, T)
  \/ \E h \in Handles : Dtor(h)
  \/ \E h \in Handles : Release(h)
  \/ \E h \in Handles : Allocate(h)
  \/ \E h \in Handles : \E p \in Held(h) : Deallocate(h, p)
  \/ \E h \in Handles, n \in {0, 2} : AllocateN(h, n)
  \/ \E h \in Handles, n \in {0, 2} : DeallocateN(h, n)
  \/ \E h \in Handles : \E p \in Held(h) : Construct(h, p)

SpecViews == Init /\ [][NextViews]_vars

\* release() called on any live object whose count reads one or more,
\* whether or not other objects share its group
ReleaseAny(h) ==
  /\ fba[h].live
  /\ refcount(St, h) >= 1
  /\ \E s \in release(Drained(St, h), h) :
       Commit(s) /\ last' = Called("release", h, s)
  /\ UNCHANGED <<group, nborn, ncalls>>

\* the runs of views, allocations, destructions and release() at any time
NextRelease ==
  \/ \E h \in Handles, T \in Types : Ctor(h, T)
  \/ \E h \in Handles, src \in Handles, T \in Types : CopyCtor(h, src, T)
  \/ \E h \in Handles : Dtor(h)
  \/ \E h \in Handles : ReleaseAny(h)
  \/ \E h \in Handles : Allocate(h)
  \/ \E h \in Handles : \E p \in Held(h) : Deallocate(h, p)

\* an instantiation with chunks of MaxB blocks
InitBlocks ==
  /\ nof_elements = MaxB
  /\ NoObjects
  /\ calc = NoCalc

SpecRelease == InitBlocks /\ [][NextRelease]_vars

\* allocate(1) when the heap has no memory left for a chunk: the call that
\* has to ask the heap ends with std::bad_alloc
AllocateFail(h) ==
  /\ fba[h].live
  /\ ncalls < MaxCalls
  /\ ncalls' = ncalls + 1
  /\ \E s \in allocate(HeapFull, h, 1) :
       /\ s.thrown
       /\ Commit(s)
       /\ last' = Called("allocate_failed", h, s)
  /\ UNCHANGED <<group, nborn>>

\* the runs in which a request to the heap may fail
NextFail ==
  \/ \E h \in Handles, T \in Types : Ctor(h, T)
  \/ \E h \in Handles, src \in Handles, T \in Types : CopyCtor(h, src, T)
  \/ \E h \in Handles : Dtor(h)
  \/ \E h \in Handles : Release(h)
  \/ \E h \in Handles : Allocate(h)
  \/ \E h \in Handles : AllocateFail(h)
  \/ \E h \in Handles : \E p \in Held(h) : Deallocate(h, p)

SpecFail == InitBlocks /\ [][NextFail]_vars

\* ------------------------------------------------ computations on their own
\* The element-size loop and the threading of a new chunk, applied to inputs
\* drawn from sets: every size and alignment that size_t holds, every block
\* count up to MaxGrowB.
PrevHead == Base(1)
ChunkStart == Base(2)

\* the words of a chunk of B blocks of E bytes at ChunkStart, its trailing
\* link included, followed by the memory behind it
Window(E, B) == {ChunkStart + PtrSize * i : i \in 0..(((B + 9) * E) \div PtrSize)}

SizeInputs ==
  {[NoCalc EXCEPT !.op = "size", !.size = s, !.alignment = a] :
     s \in 1..(SizeMod - 1), a \in 1..(SizeMod - 1)}

ChunkInputs ==
  {[NoCalc EXCEPT !.op = "chunk", !.elsize = E, !.B = b, !.m = [w \in Window(E, b) |-> 0]] :
     E \in {AlignLoop(SizeOf(T), Alignment) : T \in Types}, b \in 1..MaxGrowB}

InitCalc ==
  /\ nof_elements = 1
  /\ NoObjects
  /\ calc \in SizeInputs \cup ChunkInputs

\* the loop of the constructor
SizeCtor ==
  /\ calc.op = "size"
  /\ calc' = [calc EXCEPT !.op = "ctor", !.elsize = AlignLoop(calc.size, calc.alignment)]
  /\ UNCHANGED <<nof_elements, fba, ints, global_chunk_head_, nof_allocated_chunks_,
                 nof_free_chunks_, nheap, csize, mem, group, out, nborn, ncalls, last>>

\* the loop of the copy constructor template
SizeCopy ==
  /\ calc.op = "size"
  /\ calc' = [calc EXCEPT !.op = "copy", !.elsize = AlignLoop(calc.size, calc.alignment)]
  /\ UNCHANGED <<nof_elements, fba, ints, global_chunk_head_, nof_allocated_chunks_,
                 nof_free_chunks_, nheap, csize, mem, group, out, nborn, ncalls, last>>

\* grow() on a zeroed chunk: the trailing link, then the links of the blocks
GrowChunk ==
  /\ calc.op = "chunk"
  /\ calc' = [calc EXCEPT
                !.op = "grow",
                !.m = set_links(Store(@, ChunkStart + calc.elsize * calc.B, PrevHead),
                                ChunkStart, calc.elsize, calc.B)]
  /\ UNCHANGED <<nof_elements, fba, ints, global_chunk_head_, nof_allocated_chunks_,
                 nof_free_chunks_, nheap, csize, mem, group, out, nborn, ncalls, last>>

NextCalc == SizeCtor \/ SizeCopy \/ GrowChunk

SpecCalc == InitCalc /\ [][NextCalc]_vars

\* ------------------------------------------------- what the claims speak of
Live == {h \in Handles : fba[h].live}

\* the live objects that share h's counters
Sharing(h) == Members(Group(h))

\* the addresses on the list that starts at ptr and is linked through the
\* word at ptr + off
RECURSIVE Chain(_, _, _)
Chain(ptr, off, fuel) ==
  IF ptr = NULL \/ fuel = 0 THEN {}
  ELSE {ptr} \cup UNION {Chain(nx, off, fuel - 1) : nx \in Load(St, ptr + off)}

ListFuel == MaxChunks * MaxB + 2

FreeList(h) == Chain(fba[h].pool_head_, 0, ListFuel)

Registry(h) == Chain(fba[h].chunk_head_, fba[h].elsize_ * fba[h].nof_elmts_, ListFuel)

CacheList(T) == Chain(global_chunk_head_[T], 0, ListFuel)

Chunks == {Base(c) : c \in 1..nheap}

\* the starts of the blocks of chunk c
BlocksOf(c) == {Base(c) + i * ((csize[c] - PtrSize) \div nof_elements) : i \in 0..(nof_elements - 1)}

Blocks == UNION {BlocksOf(c) : c \in 1..nheap}

\* ------------------------------------------------------------------ claims
\* C1: refcount() read through any live handle equals the number of live
\* handles that share its group, whatever the element types of the views, and
\* is never negative.
C1_RefcountCountsLiveHandles ==
  \A h \in Live : refcount(St, h) = Cardinality(Sharing(h)) /\ refcount(St, h) >= 0

\* C2: a block that allocate(1) returned on one handle of a group is accepted
\* by deallocate(p, 1) on any handle that shares the group (the containment
\* check passes), and is afterwards on the free list of every handle of the
\* group (stated here for chunks of two blocks or more).
C2_DeallocateThroughAnySharingHandle ==
  (last.op = "deallocate" /\ nof_elements > 1) =>
    /\ ~last.af
    /\ \A k \in Sharing(last.h) : last.p \in FreeList(k)

\* C3: once the last handle of a group is destroyed, every chunk its handles
\* acquired is in a chunk cache and the cached counts have risen by as many:
\* with no object left alive, every chunk ever obtained from the heap is
\* cached and counted (stated here for chunks of two blocks or more).
C3_LastDtorRetiresEveryChunk ==
  (nborn > 0 /\ Live = {} /\ nof_elements > 1) =>
    /\ Chunks \subseteq UNION {CacheList(T) : T \in Types}
    /\ nof_free_chunks_["int"] + nof_free_chunks_["double"] + nof_free_chunks_["triple"] = nheap

\* the only object ever built, and every allocate(1) so far was made on it
\* and none of the blocks was given back
FreshRun(h) ==
  /\ nborn = 1
  /\ fba[h].live
  /\ ncalls >= 1
  /\ BagCardinality(out[Group(h)]) = ncalls

\* C4: N consecutive allocate(1) calls on a freshly constructed independent
\* handle, with no deallocation, return N pairwise distinct block addresses
\* and leave nof_allocs() at N, for every N >= 1 and every nof_elements >= 1.
C4_FreshAllocationsAreDistinctBlocks ==
  \A h \in Handles :
    FreshRun(h) =>
      /\ nof_allocs(St, h) = ncalls
      /\ Cardinality(Held(h)) = ncalls
      /\ Held(h) \subseteq Blocks

\* C5: nof_allocs() equals the number of pooled blocks that allocate(1)
\* handed out through the handles of the group and deallocate(p, 1) has not
\* taken back; calls with n # 1 do not count; it is never negative.
C5_NofAllocsCountsOutstandingBlocks ==
  \A h \in Live :
    /\ nof_allocs(St, h) = BagCardinality(out[Group(h)])
    /\ nof_allocs(St, h) >= 0

\* the addresses check() is asked about: every word of every chunk, the
\* middle of each such word, and two addresses that are in no chunk
Probes == DOMAIN mem \cup {a + 4 : a \in DOMAIN mem} \cup {BulkAddr, GarbageWord}

InBlockRange(h, c, p) == p >= c /\ p <= c + (fba[h].nof_elmts_ - 1) * fba[h].elsize_

\* C6: a pointer that allocate(1) never returned on the group fails
\* check(p): a foreign address, a free block that was never handed out, an
\* address inside a block (stated here for chunks of two blocks or more).
C6_NeverReturnedPointerFailsCheck ==
  \A h \in Handles :
    (FreshRun(h) /\ nof_elements > 1) => \A p \in Probes \ Held(h) : check(St, h, p) = {FALSE}

\* C6, amended: a pointer that is outside the span from the first to the last
\* block start of every chunk on the handle's registry list fails check(p);
\* check(p) passes for any address inside such a span, handed out or not.
C6_PointerOutsideRegistryFailsCheck ==
  \A h \in Live : \A p \in Probes :
    (\A c \in Registry(h) : ~InBlockRange(h, c, p)) => TRUE \notin check(St, h, p)

\* a handle with two chunks on its registry: a foreign address fails its
\* check, the second block of a chunk, never handed out, passes
C6_Witness ==
  \E h \in Live :
    /\ Cardinality(Registry(h)) = 2
    /\ nof_elements = 2
    /\ check(St, h, BulkAddr) = {FALSE}
    /\ \E c \in Registry(h) :
         /\ c + fba[h].elsize_ \notin UNION {BagToSet(out[g]) : g \in Handles}
         /\ check(St, h, c + fba[h].elsize_) = {TRUE}

\* C7: release() on the only live handle of a group, refcount() = 1, retires
\* every chunk of the handle's registry to the chunk cache, leaves both heads
\* null, refcount() at 1 and nof_allocs() at 0, and the handle can be used
\* again: the next allocate(1) grows the pool and returns a block.
C7_ReleaseRetiresRegistry ==
  [][\A h \in Handles :
       Release(h) =>
         LET T == fba[h].type
         IN /\ Registry(h) \subseteq CacheList(T)'
            /\ nof_free_chunks_'[T] = nof_free_chunks_[T] + Cardinality(Registry(h))
            /\ fba'[h].pool_head_ = NULL
            /\ fba'[h].chunk_head_ = NULL
            /\ refcount(St, h)' = 1
            /\ nof_allocs(St, h)' = 0
            /\ \A s \in allocate(St, h, 1)' :
                 /\ ~s.thrown
                 /\ s.fba[h].chunk_head_ # NULL
                 /\ \E c \in 1..s.nheap :
                      /\ s.fba[h].chunk_head_ = Base(c)
                      /\ s.ret = Base(c)]_vars

\* an independent handle that has no chunk, is the only object alive, and whose
\* instantiation has created chunks before: they belonged to groups that are
\* gone, or the handle has released them
LaterHandle(h) ==
  /\ Live = {h}
  /\ group[h] = h
  /\ fba[h].chunk_head_ = NULL
  /\ nof_allocated_chunks_[fba[h].type] > 0

\* C8: the heap is asked for a chunk only when the chunk cache of the
\* configuration is empty; with a chunk in the cache, growth pops the top
\* one, lowers the cached count by one and leaves the created count alone;
\* once the last handle of a group is gone, the first growth of a later
\* independent handle of the same configuration reuses one of its chunks.
C8_GrowthTakesFromCacheFirst ==
  [][\A h \in Handles :
       (Allocate(h) /\ fba[h].pool_head_ = NULL) =>
         LET T == fba[h].type
         IN /\ global_chunk_head_[T] # NULL =>
                 /\ nheap' = nheap
                 /\ fba'[h].chunk_head_ = global_chunk_head_[T]
                 /\ nof_free_chunks_'[T] = nof_free_chunks_[T] - 1
                 /\ nof_allocated_chunks_' = nof_allocated_chunks_
            /\ nheap' # nheap => global_chunk_head_[T] = NULL
            /\ LaterHandle(h) =>
                 /\ nheap' = nheap
                 /\ fba'[h].chunk_head_ \in Chunks]_vars

CeilDiv(k, b) == (k + b - 1) \div b

\* C9: a chunk is acquired only inside an allocate(1) that finds the free
\* list empty, never by a constructor, a deallocate or an allocate(n # 1);
\* a single independent handle has exactly ceil(k / nof_elements) chunks on
\* its registry after k allocate(1) calls and no deallocation.
C9_GrowthIsLazy ==
  /\ [][(nheap' > nheap \/ \E T \in Types : nof_free_chunks_'[T] < nof_free_chunks_[T])
          => /\ last'.op \in {"allocate", "reallocate"}
             /\ fba[last'.h].pool_head_ = NULL]_vars
  /\ [](\A h \in Handles :
          FreshRun(h) => Cardinality(Registry(h)) = CeilDiv(ncalls, nof_elements))

SmallestMultiple(s, a) == ((s + a - 1) \div a) * a

C11_BlockSizeIsSmallestMultiple ==
  (calc.op \in {"ctor", "copy"} /\ SmallestMultiple(calc.size, calc.alignment) < SizeMod)
    => calc.elsize = SmallestMultiple(calc.size, calc.alignment)

\* ---------------------------------------------------------------------------
\* C12: a view built from an object of another block size forms a group of its
\* own: once built it reads refcount() 1 and nof_allocs() 0 and has an empty
\* free list and an empty registry, and building it leaves every other object
\* and its counters as they were; from then on the counters of an object
\* change only in calls on objects of its own group.
Actor == last'.h

ActorGroup == IF fba[Actor].live THEN group[Actor] ELSE group'[Actor]

C13_BulkPathsLeaveThePoolAlone ==
  [][last'.op \in {"allocate_n", "deallocate_n"}
       => UNCHANGED <<fba, ints, mem, nheap, csize, global_chunk_head_,
                      nof_allocated_chunks_, nof_free_chunks_>>]_vars

\* a bulk deallocate was made on an object that has a block out, a free block
\* on its list and a chunk in its registry
C13_Witness ==
  /\ last.op = "deallocate_n"
  /\ \E h \in Live : /\ nof_allocs(St, h) >= 1
                      /\ fba[h].pool_head_ # NULL
                      /\ fba[h].chunk_head_ # NULL
                      /\ fba[h].nof_elmts_ > 1

\* ---------------------------------------------------------------------------
\* C14: for every block count B of one or more, grow() threads exactly the B
\* blocks of the new chunk: the link of block i is block i+1, the link of
\* block B-1 is null, no other word of the chunk or of the memory behind it
\* is written, and the trailing link holds the registry head of before.
Slot(i) == ChunkStart + i * calc.elsize

C14_GrowThreadsExactlyTheBlocks ==
  calc.op = "grow"
    => /\ \A i \in 0..(calc.B - 2) : calc.m[Slot(i)] = Slot(i + 1)
       /\ calc.m[Slot(calc.B - 1)] = NULL
       /\ calc.m[Slot(calc.B)] = PrevHead
       /\ \A w \in DOMAIN calc.m : w \notin {Slot(i) : i \in 0..calc.B} => calc.m[w] = 0

\* ---------------------------------------------------------------------------
\* C15: in every state of a run that keeps the contract, the free list of
\* every live object holds only starts of blocks of chunks that are on that
\* object's own registry list: its head, if not null, and every block reached
\* through the links (stated here for chunks of two blocks or more).
OwnBlocks(h) ==
  {c + i * fba[h].elsize_ : c \in Registry(h), i \in 0..(fba[h].nof_elmts_ - 1)}

C15_FreeListLiesInOwnRegistry ==
  nof_elements > 1 => \A h \in Live : FreeList(h) \subseteq OwnBlocks(h)

\* ---------------------------------------------------------------------------
\* C16: for the cache of every instantiation the cached count is at least 0,
\* at most the count of chunks ever created, and equal to the number of
\* chunks on the cache list; also when a sharing view of another element type
\* retires chunks (stated here for chunks of two blocks or more).
C16_CacheCountsAgree ==
  nof_elements > 1 =>
    \A T \in Types :
      /\ 0 <= nof_free_chunks_[T]
      /\ nof_free_chunks_[T] <= nof_allocated_chunks_[T]
      /\ nof_free_chunks_[T] = Cardinality(CacheList(T))

\* ---------------------------------------------------------------------------
\* C17: across the live objects of a group no block is handed out twice
\* before it is deallocated: of every address that allocate(1) returned to
\* the group's callers, at most one copy is outstanding; also for a view built
\* after its source has grown (stated here for chunks of two blocks or more).
C17_NoBlockHandedOutTwice ==
  nof_elements > 1 =>
    \A h \in Live : \A p \in Held(h) : CopiesIn(p, out[Group(h)]) = 1

\* ---------------------------------------------------------------------------
\* C18: whatever release() calls and destructions are made on the objects of
\* a group, no chunk is in a cache while a live object has it on its registry
\* list or has a block of it on its free list, no chunk is in a cache twice,
\* and no live object points to counters that have been freed (stated here
\* for chunks of two blocks or more).
Cached == UNION {CacheList(T) : T \in Types}

ChunkOf(h, p) == {c \in Chunks : p >= c /\ p < c + fba[h].elsize_ * fba[h].nof_elmts_}

C18_ReleaseRetiresOnlyWhenSole ==
  nof_elements > 1 =>
    /\ \A h \in Live :
         /\ Registry(h) \cap Cached = {}
         /\ \A p \in FreeList(h) : ChunkOf(h, p) \cap Cached = {}
         /\ fba[h].refcount_ # NULL =>
              ints[fba[h].refcount_].live /\ ints[fba[h].nof_allocs_].live
    /\ \A T \in Types : nof_free_chunks_[T] = Cardinality(CacheList(T))

\* ---------------------------------------------------------------------------
\* C19: an allocate(1) whose growth fails for lack of memory leaves the state
\* as it was before the call: every object's free-list head, registry head
\* and counter pointers, the counters, the chunks, the cache lists, the
\* cached counts and the counts of chunks ever created.
C19_FailedGrowthChangesNothing ==
  [][last'.op = "allocate_failed"
       => UNCHANGED <<fba, ints, mem, nheap, csize, global_chunk_head_,
                      nof_free_chunks_, nof_allocated_chunks_>>]_vars

\* ---------------------------------------------------------------------------
\* C20: for every element size and every alignment of one or more the block
\* size is at least the size of a pointer, so the link written into the first
\* word of a block ends before the next block, or the trailing link, begins
\* (stated for the inputs on which the loop's sum does not wrap).
LinkBytes(p) == p..(p + PtrSize - 1)

C20_BlockHoldsALink ==
  (/\ calc.op \in {"ctor", "copy"}
   /\ SmallestMultiple(calc.size, calc.alignment) + calc.alignment <= SizeMod)
    => /\ calc.elsize >= PtrSize
       /\ \A b \in LinkBytes(0) : b < calc.elsize

====
